---- MODULE Spec2Model ----
(***************************************************************************)
(* Model of Sensiel/LABO: zipper.py (save_in_zip, pack command) and        *)
(* unzipper.py (unzip_files).                                               *)
(*                                                                         *)
(* Disk state: the input tree `fs` (in os.walk order), the archive         *)
(* directory `zips`, the output tree `outdir`.  Process state: the locals  *)
(* of save_in_zip / unzip_files, the futures of the thread pool and the    *)
(* position of every worker.                                               *)
(***************************************************************************)
EXTENDS Integers, Sequences, FiniteSets, TLC

\* ---------------------------------------------------------------- bounds
MaxFiles == 3      \* files in the input directory
MaxSize  == 3      \* largest file size (bytes)
MaxLimit == 2      \* largest --limit value
CpuCount == 1      \* os.cpu_count() of the host
BatchFiles == 4    \* files in the input directory when only the batcher runs
SmallFiles == 2    \* files in the input directory when the unpack command runs twice
ManyArchives == 17 \* archives in zip_dir when the unpack command runs alone

\* ------------------------------------------------------ program constants
PoolCap == 16                   \* zipper.py:75  min(16, len(batches))
DefaultPoolCap == 32            \* ThreadPoolExecutor() default: min(32, cpus + 4)

path_to_files  == <<"in">>      \* scan root
path_to_output == <<"zips">>    \* archive directory
output_dir     == <<"out">>     \* extraction directory

VARIABLES
  fs,                 \* input tree: sequence of [path, size, data] in os.walk order
  limit,              \* limit argument of save_in_zip
  zips,               \* archive directory: zip path -> sequence of <<arcname, data>>
  outdir,             \* output tree: path -> data
  pc,                 \* position of the main thread
  err,                \* exception that ended the current command ("none" if none)
  i,                  \* index of the main thread's current loop
  files_to_zip,       \* zipper.py:31
  total_size,         \* zipper.py:32
  warned,             \* paths for which warnings.warn was called (zipper.py:38)
  batches,            \* zipper.py:45
  current_batch,      \* zipper.py:46
  current_batch_size, \* zipper.py:47
  max_workers,        \* pool size of the running executor
  fstate,             \* state of the future of each submitted unit
  wpos,               \* per unit: number of entries fully processed by its worker
  wlocal,             \* per pack worker: value of pbar.n it loaded, or -1
  pbar_n,             \* tqdm counter pbar.n
  collected,          \* futures already yielded by as_completed
  zip_files_created,  \* zipper.py:63
  started,            \* history: has any pool worker been started in this command
  zip_files,          \* unzipper.py:25 argument
  delete_zip,         \* unzipper.py:25 argument
  total_files,        \* unzipper.py:28
  badzip,             \* history: archives whose open raised in the pre-scan
  cpus,               \* os.cpu_count() of the host that runs the command
  out0,               \* history: the output tree when unzip_files was called
  run,                \* history: number of calls of unzip_files so far
  clean               \* history: the previous call of unzip_files extracted everything

diskvars == <<fs, limit, zips, outdir>>
scanvars == <<files_to_zip, total_size, warned>>
batchvars == <<batches, current_batch, current_batch_size>>
poolvars == <<max_workers, fstate, wpos, wlocal, pbar_n, collected, zip_files_created, started>>
unzipvars == <<zip_files, delete_zip, total_files, badzip>>
callvars == <<cpus, out0, run, clean>>
vars == <<fs, limit, zips, outdir, pc, err, i, files_to_zip, total_size, warned,
          batches, current_batch, current_batch_size, max_workers, fstate, wpos,
          wlocal, pbar_n, collected, zip_files_created, started, zip_files,
          delete_zip, total_files, badzip, cpus, out0, run, clean>>

\* ---------------------------------------------------------------- helpers
Min2(a, b) == IF a < b THEN a ELSE b

Range(s) == {s[k] : k \in 1..Len(s)}

\* relative path of the n-th file of the tree; even files live in a subdirectory
RelPathOf(n) == IF n % 2 = 0 THEN <<"sub", n>> ELSE <<n>>

\* os.path.join(root, file)
Join(root, rel) == root \o rel

\* os.path.relpath(filepath, path_to_files), for a filepath below the root
RelPath(filepath, root) == SubSeq(filepath, Len(root) + 1, Len(filepath))

\* the input trees of at most nmax files: any sizes, pairwise distinct paths
\* and contents
TreesOf(nmax) ==
  UNION {{[k \in 1..n |-> [path |-> Join(path_to_files, RelPathOf(k)),
                            size |-> sz[k], data |-> k]] :
            sz \in [1..n -> 0..MaxSize]} : n \in 0..nmax}

Trees == TreesOf(MaxFiles)

\* contents of the input file at `filepath`
DataOf(filepath) == (CHOOSE f \in Range(fs) : f.path = filepath).data

RECURSIVE SumSizes(_)
\* sum of the sizes of a list of (filepath, filesize) pairs
SumSizes(s) == IF s = <<>> THEN 0 ELSE s[1][2] + SumSizes(Tail(s))

RECURSIVE Flatten(_)
\* concatenation of a list of batches
Flatten(bs) == IF bs = <<>> THEN <<>> ELSE bs[1] \o Flatten(Tail(bs))

\* insert e in front of the elements whose key equals its own
InsertDesc_m(s, e) ==
  LET keep == {k \in 1..Len(s) : s[k][2] > e[2]}
      n == IF keep = {} THEN 0 ELSE CHOOSE k \in keep : \A m \in keep : m <= k
  IN SubSeq(s, 1, n) \o <<e>> \o SubSeq(s, n + 1, Len(s))

\* insert e behind every element whose key is >= its own
InsertDesc(s, e) ==
  LET keep == {k \in 1..Len(s) : s[k][2] >= e[2]}
      n == IF keep = {} THEN 0 ELSE CHOOSE k \in keep : \A m \in keep : m <= k
  IN SubSeq(s, 1, n) \o <<e>> \o SubSeq(s, n + 1, Len(s))

RECURSIVE SortAsc_m(_)
\* the sort without reverse=True
SortAsc_m(s) ==
  IF s = <<>> THEN <<>>
  ELSE LET rest == SortAsc_m(SubSeq(s, 1, Len(s) - 1))
           e == s[Len(s)]
           keep == {k \in 1..Len(rest) : rest[k][2] <= e[2]}
           n == IF keep = {} THEN 0 ELSE CHOOSE k \in keep : \A m \in keep : m <= k
       IN SubSeq(rest, 1, n) \o <<e>> \o SubSeq(rest, n + 1, Len(rest))

RECURSIVE SortDesc(_)
\* list.sort(key=lambda x: x[1], reverse=True): stable, equal keys keep their order
SortDesc(s) ==
  IF s = <<>> THEN <<>>
  ELSE InsertDesc(SortDesc(SubSeq(s, 1, Len(s) - 1)), s[Len(s)])

\* f"files_{batch_index}.zip" inside path_to_output
ZipName(batch_index) == Join(path_to_output, <<"files", batch_index>>)

NoUnits == <<>>

\* ------------------------------------------------------------------- Init
\* the state in which the pack command starts: an input tree of `trees`, a
\* limit of `limits`, an output tree of `outs`, a host with `hosts` cpus
InitWith(trees, limits, outs, hosts) ==
  /\ fs \in trees
  /\ limit \in limits
  /\ zips = <<>>
  /\ outdir \in outs
  /\ cpus \in hosts
  /\ out0 = <<>>
  /\ run = 0
  /\ clean = FALSE
  /\ pc = "start"
  /\ err = "none"
  /\ i = 1
  /\ files_to_zip = <<>>
  /\ total_size = 0
  /\ warned = {}
  /\ batches = <<>>
  /\ current_batch = <<>>
  /\ current_batch_size = 0
  /\ max_workers = 0
  /\ fstate = NoUnits
  /\ wpos = NoUnits
  /\ wlocal = NoUnits
  /\ pbar_n = 0
  /\ collected = {}
  /\ zip_files_created = <<>>
  /\ started = FALSE
  /\ zip_files = <<>>
  /\ delete_zip = FALSE
  /\ total_files = 0
  /\ badzip = {}

Init == InitWith(Trees, 0..MaxLimit, {<<>>}, {CpuCount})

\* ----------------------------------------------------- save_in_zip: scan
\* zipper.py:26-28: the directory check, then makedirs
CheckDir ==
  /\ pc = "start"
  /\ \E isdir \in BOOLEAN :
       IF isdir THEN /\ pc' = "scan"
                     /\ err' = err
                ELSE /\ pc' = "exit"
                     /\ err' = "ValueError_path"
  /\ UNCHANGED <<diskvars, i, scanvars, batchvars, poolvars, unzipvars>>
  /\ UNCHANGED callvars

\* the size filter with the boundary on the wrong side
Oversized_m(filesize, lim) == filesize >= lim

\* zipper.py:37 the size filter
Oversized(filesize, lim) == filesize > lim

\* zipper.py:33-41: one iteration of the walk
ScanFile ==
  /\ pc = "scan"
  /\ i <= Len(fs)
  /\ LET filepath == fs[i].path
         filesize == fs[i].size
     IN IF Oversized(filesize, limit)
        THEN /\ warned' = warned \cup {filepath}
             /\ UNCHANGED <<files_to_zip, total_size>>
        ELSE /\ files_to_zip' = Append(files_to_zip, <<filepath, filesize>>)
             /\ total_size' = total_size + filesize
             /\ warned' = warned
  /\ i' = i + 1
  /\ UNCHANGED <<diskvars, pc, err, batchvars, poolvars, unzipvars>>
  /\ UNCHANGED callvars

\* zipper.py:43-47: the sort and the initialisation of the batching loop
SortFiles ==
  /\ pc = "scan"
  /\ i > Len(fs)
  /\ files_to_zip' = SortDesc(files_to_zip)
  /\ batches' = <<>>
  /\ current_batch' = <<>>
  /\ current_batch_size' = 0
  /\ i' = 1
  /\ pc' = "batch"
  /\ UNCHANGED <<diskvars, err, total_size, warned, poolvars, unzipvars>>
  /\ UNCHANGED callvars

\* the closing test that also closes a batch the file would fill exactly
OverflowsGe_m(size, filesize, lim) == size + filesize >= lim

\* the closing test applied to the batch before the file is added
Overflows_m(size, filesize, lim) == size > lim

\* zipper.py:50 the test that closes the current batch
Overflows(size, filesize, lim) == size + filesize > lim

\* zipper.py:51-52 and 60-61: the current batch is closed unless it is empty
CloseBatch(bs, cur) == IF cur # <<>> THEN Append(bs, cur) ELSE bs

\* a new batch that forgets the file that opened it
StartBatch_m(entry) == <<>>

\* zipper.py:53 the batch started by a file that does not fit
StartBatch(entry) == <<entry>>

\* zipper.py:49-57: one iteration of the batching loop
BatchStep ==
  /\ pc = "batch"
  /\ i <= Len(files_to_zip)
  /\ LET filepath == files_to_zip[i][1]
         filesize == files_to_zip[i][2]
     IN IF Overflows(current_batch_size, filesize, limit)
        THEN /\ batches' = CloseBatch(batches, current_batch)
             /\ current_batch' = StartBatch(<<filepath, filesize>>)
             /\ current_batch_size' = filesize
        ELSE /\ current_batch' = Append(current_batch, <<filepath, filesize>>)
             /\ current_batch_size' = current_batch_size + filesize
             /\ batches' = batches
  /\ i' = i + 1
  /\ UNCHANGED <<diskvars, pc, err, scanvars, poolvars, unzipvars>>
  /\ UNCHANGED callvars

\* zipper.py:59-64: the last batch, zip_files_created and the progress bar
CloseLast ==
  /\ pc = "batch"
  /\ i > Len(files_to_zip)
  /\ batches' = CloseBatch(batches, current_batch)
  /\ zip_files_created' = <<>>
  /\ pbar_n' = 0
  /\ pc' = "pool"
  /\ UNCHANGED <<diskvars, err, i, scanvars, current_batch, current_batch_size,
                 max_workers, fstate, wpos, wlocal, collected, started, unzipvars>>
  /\ UNCHANGED callvars

\* ------------------------------------------------- save_in_zip: the pool
\* the 0-based enumerate index used as the archive index
BatchIndex_m(index) == index

\* every batch handed the index of the first
BatchIndexOne_m(index) == 1

\* zipper.py:79 the archive index handed to zip_batch for enumerate index `index`
BatchIndex(index) == index + 1

\* number of units currently executed by a pool thread
Running == Cardinality({k \in DOMAIN fstate : fstate[k] = "running"})

Finished(k) == fstate[k] \in {"done", "failed"}

\* zipper.py:75-81: the executor is created and every batch is submitted
CreatePool ==
  /\ pc = "pool"
  /\ LET n == Min2(PoolCap, Len(batches))
     IN IF n <= 0
        THEN \* ThreadPoolExecutor raises ValueError("max_workers must be greater than 0")
             /\ pc' = "exit"
             /\ err' = "ValueError_max_workers"
             /\ UNCHANGED <<max_workers, fstate, wpos, wlocal>>
        ELSE /\ max_workers' = n
             /\ fstate' = [k \in 1..Len(batches) |-> "queued"]
             /\ wpos' = [k \in 1..Len(batches) |-> 0]
             /\ wlocal' = [k \in 1..Len(batches) |-> -1]
             /\ pc' = "collect"
             /\ err' = err
  /\ collected' = {}
  /\ UNCHANGED <<diskvars, i, scanvars, batchvars, pbar_n, zip_files_created,
                 started, unzipvars>>
  /\ UNCHANGED callvars

\* a pool thread takes the next work item off the FIFO queue and zip_batch
\* opens its archive for writing (zipper.py:67-68)
PackStart(k) ==
  /\ pc \in {"collect", "drain"}
  /\ k \in DOMAIN fstate
  /\ fstate[k] = "queued"
  /\ \A j \in 1..(k - 1) : fstate[j] # "queued"
  /\ Running < max_workers
  /\ fstate' = [fstate EXCEPT ![k] = "running"]
  /\ zips' = (ZipName(BatchIndex(k - 1)) :> <<>>) @@ zips
  /\ started' = TRUE
  /\ UNCHANGED <<fs, limit, outdir, pc, err, i, scanvars, batchvars, max_workers,
                 wpos, wlocal, pbar_n, collected, zip_files_created, unzipvars>>
  /\ UNCHANGED callvars

\* the file stored under its full path
ArcName_m(filepath) == filepath

\* zipper.py:70 the name under which a file is stored
ArcName(filepath) == RelPath(filepath, path_to_files)

\* zipper.py:70-72: the next file is written; pbar.update loads pbar.n
\* (zipf.write touches only this worker's archive, so it is joined with the load)
PackWrite(k) ==
  /\ pc \in {"collect", "drain"}
  /\ k \in DOMAIN fstate
  /\ fstate[k] = "running"
  /\ wlocal[k] = -1
  /\ wpos[k] < Len(batches[k])
  /\ LET filepath == batches[k][wpos[k] + 1][1]
         zip_filename == ZipName(BatchIndex(k - 1))
     IN zips' = [zips EXCEPT ![zip_filename] =
                   Append(@, <<ArcName(filepath), DataOf(filepath)>>)]
  /\ wlocal' = [wlocal EXCEPT ![k] = pbar_n]
  /\ UNCHANGED <<fs, limit, outdir, pc, err, i, scanvars, batchvars, max_workers,
                 fstate, wpos, pbar_n, collected, zip_files_created, started, unzipvars>>
  /\ UNCHANGED callvars

\* zipper.py:72: pbar.update stores pbar.n (tqdm: self.n += n, not synchronised)
PackUpdate(k) ==
  /\ pc \in {"collect", "drain"}
  /\ k \in DOMAIN fstate
  /\ fstate[k] = "running"
  /\ wlocal[k] # -1
  /\ pbar_n' = wlocal[k] + batches[k][wpos[k] + 1][2]
  /\ wlocal' = [wlocal EXCEPT ![k] = -1]
  /\ wpos' = [wpos EXCEPT ![k] = @ + 1]
  /\ UNCHANGED <<diskvars, pc, err, i, scanvars, batchvars, max_workers, fstate,
                 collected, zip_files_created, started, unzipvars>>
  /\ UNCHANGED callvars

\* zipper.py:68-72: an I/O failure in zipf.write or in closing the archive;
\* the archive stays on disk with what was written
PackFail(k) ==
  /\ pc \in {"collect", "drain"}
  /\ k \in DOMAIN fstate
  /\ fstate[k] = "running"
  /\ wlocal[k] = -1
  /\ fstate' = [fstate EXCEPT ![k] = "failed"]
  /\ UNCHANGED <<diskvars, pc, err, i, scanvars, batchvars, max_workers, wpos,
                 wlocal, pbar_n, collected, zip_files_created, started, unzipvars>>
  /\ UNCHANGED callvars

\* zipper.py:68,73: the archive is closed and zip_batch returns zip_filename
PackFinish(k) ==
  /\ pc \in {"collect", "drain"}
  /\ k \in DOMAIN fstate
  /\ fstate[k] = "running"
  /\ wlocal[k] = -1
  /\ wpos[k] = Len(batches[k])
  /\ fstate' = [fstate EXCEPT ![k] = "done"]
  /\ UNCHANGED <<diskvars, pc, err, i, scanvars, batchvars, max_workers, wpos,
                 wlocal, pbar_n, collected, zip_files_created, started, unzipvars>>
  /\ UNCHANGED callvars

\* zipper.py:84-86: as_completed yields a finished future; result() returns the
\* archive name or re-raises the worker's exception, which leaves the with block
Collect(k) ==
  /\ pc = "collect"
  /\ k \in DOMAIN fstate
  /\ Finished(k)
  /\ k \notin collected
  /\ collected' = collected \cup {k}
  /\ IF fstate[k] = "done"
     THEN /\ zip_files_created' = Append(zip_files_created, ZipName(BatchIndex(k - 1)))
          /\ UNCHANGED <<pc, err>>
     ELSE /\ pc' = "drain"
          /\ err' = "IOError"
          /\ UNCHANGED zip_files_created
  /\ UNCHANGED <<diskvars, i, scanvars, batchvars, max_workers, fstate, wpos,
                 wlocal, pbar_n, started, unzipvars>>
  /\ UNCHANGED callvars

\* zipper.py:76 executor.__exit__ -> shutdown(wait=True): the exception leaves
\* save_in_zip once every submitted unit has run
Drained ==
  /\ pc = "drain"
  /\ \A k \in DOMAIN fstate : Finished(k)
  /\ pc' = "exit"
  /\ UNCHANGED <<diskvars, err, i, scanvars, batchvars, poolvars, unzipvars>>
  /\ UNCHANGED callvars

\* save_in_zip returning as soon as one future was collected
PoolReturn_m ==
  /\ pc = "collect"
  /\ collected # {}
  /\ pc' = "returned"
  /\ UNCHANGED <<diskvars, err, i, scanvars, batchvars, poolvars, unzipvars>>
  /\ UNCHANGED callvars

\* zipper.py:84-89: every future was collected; pbar.close(); return
PoolReturn ==
  /\ pc = "collect"
  /\ collected = DOMAIN fstate
  /\ pc' = "returned"
  /\ UNCHANGED <<diskvars, err, i, scanvars, batchvars, poolvars, unzipvars>>
  /\ UNCHANGED callvars

\* zipper.py:135-141: the upload options are validated after save_in_zip
\* returned (args is immutable and first read here; the upload itself is external)
UploadCheck ==
  /\ pc = "returned"
  /\ \E upload \in BOOLEAN, repo_id \in BOOLEAN, token \in BOOLEAN :
       err' = IF ~upload THEN "none"
              ELSE IF ~repo_id THEN "ValueError_repo_id"
              ELSE IF ~token THEN "ValueError_token"
              ELSE "none"
  /\ pc' = "exit"
  /\ UNCHANGED <<diskvars, i, scanvars, batchvars, poolvars, unzipvars>>
  /\ UNCHANGED callvars

\* ------------------------------------------------------------ unzip_files
\* save_in_zip returned to the pack command, which has ended
PackReturned ==
  /\ pc = "exit"
  /\ err \in {"none", "ValueError_repo_id", "ValueError_token"}

\* unzipper.py:25-28: unzip_files is called, in a new process, on the list of
\* archives save_in_zip returned
UnzipCall ==
  /\ PackReturned
  /\ zip_files' = zip_files_created
  /\ \E dz \in BOOLEAN : delete_zip' = dz
  /\ total_files' = 0
  /\ badzip' = {}
  /\ i' = 1
  /\ pc' = "u_prescan"
  /\ err' = "none"
  /\ files_to_zip' = <<>>
  /\ total_size' = 0
  /\ warned' = {}
  /\ batches' = <<>>
  /\ current_batch' = <<>>
  /\ current_batch_size' = 0
  /\ max_workers' = 0
  /\ fstate' = NoUnits
  /\ wpos' = NoUnits
  /\ wlocal' = NoUnits
  /\ pbar_n' = 0
  /\ collected' = {}
  /\ zip_files_created' = <<>>
  /\ started' = FALSE
  /\ out0' = outdir
  /\ run' = run + 1
  /\ clean' = FALSE
  /\ UNCHANGED <<diskvars, cpus>>

\* unzipper.py:29-31: every archive is opened to count its entries; opening an
\* archive whose directory is unreadable raises BadZipFile out of unzip_files,
\* opening one that is no longer there raises FileNotFoundError
PreScan ==
  /\ pc = "u_prescan"
  /\ i <= Len(zip_files)
  /\ \E readable \in (IF zip_files[i] \in DOMAIN zips THEN BOOLEAN ELSE {FALSE}) :
       IF readable
       THEN /\ total_files' = total_files + Len(zips[zip_files[i]])
            /\ i' = i + 1
            /\ UNCHANGED <<pc, err, badzip>>
       ELSE /\ badzip' = badzip \cup {zip_files[i]}
            /\ err' = IF zip_files[i] \in DOMAIN zips THEN "BadZipFile"
                                                     ELSE "FileNotFoundError"
            /\ pc' = "u_exit"
            /\ UNCHANGED <<total_files, i>>
  /\ UNCHANGED <<diskvars, scanvars, batchvars, poolvars, zip_files, delete_zip>>
  /\ UNCHANGED callvars

\* the default pool size of Python 3.5 to 3.7
UnzipPoolSize_m(c) == c * 5

\* unzipper.py:41 ThreadPoolExecutor(): max_workers defaults to min(32, cpus + 4)
UnzipPoolSize(c) == Min2(DefaultPoolCap, c + 4)

\* unzipper.py:41-42: ThreadPoolExecutor() with the default size; executor.map
\* submits one unzip_file call per archive and its result iterator is dropped
UnzipSubmit ==
  /\ pc = "u_prescan"
  /\ i > Len(zip_files)
  /\ max_workers' = UnzipPoolSize(cpus)
  /\ fstate' = [k \in 1..Len(zip_files) |-> "queued"]
  /\ wpos' = [k \in 1..Len(zip_files) |-> 0]
  /\ pc' = "u_wait"
  /\ UNCHANGED <<diskvars, err, i, scanvars, batchvars, wlocal, pbar_n, collected,
                 zip_files_created, started, unzipvars>>
  /\ UNCHANGED callvars

\* a pool thread takes the next archive off the FIFO queue (unzipper.py:34-36)
UnzipStart(k) ==
  /\ pc = "u_wait"
  /\ k \in DOMAIN fstate
  /\ fstate[k] = "queued"
  /\ \A j \in 1..(k - 1) : fstate[j] # "queued"
  /\ Running < max_workers
  /\ fstate' = [fstate EXCEPT ![k] = "running"]
  /\ started' = TRUE
  /\ UNCHANGED <<diskvars, pc, err, i, scanvars, batchvars, max_workers, wpos,
                 wlocal, pbar_n, collected, zip_files_created, unzipvars>>
  /\ UNCHANGED callvars

\* the destination opened for appending: an existing file grows by the member
WriteFile_m(tree, dest, data) ==
  IF dest \in DOMAIN tree THEN (dest :> tree[dest] + data) @@ tree
                           ELSE (dest :> data) @@ tree

\* unzipper.py:37 extractall opens the destination with "wb" and copies the
\* member into it: an existing file is truncated and rewritten
WriteFile(tree, dest, data) == (dest :> data) @@ tree

\* unzipper.py:37: extractall writes the next member below output_dir,
\* replacing whatever is at that path
UnzipExtract(k) ==
  /\ pc = "u_wait"
  /\ k \in DOMAIN fstate
  /\ fstate[k] = "running"
  /\ wpos[k] < Len(zips[zip_files[k]])
  /\ LET member == zips[zip_files[k]][wpos[k] + 1]
     IN outdir' = WriteFile(outdir, Join(output_dir, member[1]), member[2])
  /\ wpos' = [wpos EXCEPT ![k] = @ + 1]
  /\ UNCHANGED <<fs, limit, zips, pc, err, i, scanvars, batchvars, max_workers,
                 fstate, wlocal, pbar_n, collected, zip_files_created, started,
                 unzipvars>>
  /\ UNCHANGED callvars

\* unzipper.py:36-37: an I/O failure while the archive is read or extracted;
\* the exception is stored in the unit's future
UnzipFail(k) ==
  /\ pc = "u_wait"
  /\ k \in DOMAIN fstate
  /\ fstate[k] = "running"
  /\ fstate' = [fstate EXCEPT ![k] = "failed"]
  /\ UNCHANGED <<diskvars, pc, err, i, scanvars, batchvars, max_workers, wpos,
                 wlocal, pbar_n, collected, zip_files_created, started, unzipvars>>
  /\ UNCHANGED callvars

\* the archive removed whatever the flag says
ShouldRemove_m(dz) == TRUE

\* unzipper.py:38 the test that guards os.remove
ShouldRemove(dz) == dz

\* unzipper.py:37-39: extractall is complete, the archive is closed and, with
\* delete_zip, removed
UnzipFinish(k) ==
  /\ pc = "u_wait"
  /\ k \in DOMAIN fstate
  /\ fstate[k] = "running"
  /\ wpos[k] = Len(zips[zip_files[k]])
  /\ fstate' = [fstate EXCEPT ![k] = "done"]
  /\ zips' = IF ShouldRemove(delete_zip)
             THEN [z \in DOMAIN zips \ {zip_files[k]} |-> zips[z]]
             ELSE zips
  /\ UNCHANGED <<fs, limit, outdir, pc, err, i, scanvars, batchvars, max_workers,
                 wpos, wlocal, pbar_n, collected, zip_files_created, started,
                 unzipvars>>
  /\ UNCHANGED callvars

\* unzipper.py:41-43: the with block waits for every unit, then unzip_files
\* prints its closing message and returns
UnzipReturn ==
  /\ pc = "u_wait"
  /\ \A k \in DOMAIN fstate : Finished(k)
  /\ pc' = "u_exit"
  /\ UNCHANGED <<diskvars, err, i, scanvars, batchvars, poolvars, unzipvars>>
  /\ UNCHANGED callvars

Next ==
  \/ CheckDir
  \/ ScanFile
  \/ SortFiles
  \/ BatchStep
  \/ CloseLast
  \/ CreatePool
  \/ \E k \in 1..MaxFiles : PackStart(k)
  \/ \E k \in 1..MaxFiles : PackWrite(k)
  \/ \E k \in 1..MaxFiles : PackUpdate(k)
  \/ \E k \in 1..MaxFiles : PackFail(k)
  \/ \E k \in 1..MaxFiles : PackFinish(k)
  \/ \E k \in 1..MaxFiles : Collect(k)
  \/ Drained
  \/ PoolReturn
  \/ UploadCheck
  \/ UnzipCall
  \/ PreScan
  \/ UnzipSubmit
  \/ \E k \in 1..MaxFiles : UnzipStart(k)
  \/ \E k \in 1..MaxFiles : UnzipExtract(k)
  \/ \E k \in 1..MaxFiles : UnzipFail(k)
  \/ \E k \in 1..MaxFiles : UnzipFinish(k)
  \/ UnzipReturn

Spec == Init /\ [][Next]_vars

\* --------------------------------------------- the batcher on larger trees
InitBatch == InitWith(TreesOf(BatchFiles), 0..MaxLimit, {<<>>}, {CpuCount})

\* zipper.py:26-61: save_in_zip up to the end of the batching loop
NextBatch ==
  \/ CheckDir
  \/ ScanFile
  \/ SortFiles
  \/ BatchStep
  \/ CloseLast

SpecBatch == InitBatch /\ [][NextBatch]_vars

\* ------------------------------------------------------- the pack command
\* zipper.py:122-141: the pack command, from the directory check to its end
NextPack ==
  \/ CheckDir
  \/ ScanFile
  \/ SortFiles
  \/ BatchStep
  \/ CloseLast
  \/ CreatePool
  \/ \E k \in DOMAIN fstate : PackStart(k)
  \/ \E k \in DOMAIN fstate : PackWrite(k)
  \/ \E k \in DOMAIN fstate : PackUpdate(k)
  \/ \E k \in DOMAIN fstate : PackFail(k)
  \/ \E k \in DOMAIN fstate : PackFinish(k)
  \/ \E k \in DOMAIN fstate : Collect(k)
  \/ Drained
  \/ PoolReturn
  \/ UploadCheck

\* the worked scenario: three files of 8 GB and one of 1 GB, in any walk
\* order, with a limit of 20 GB (sizes counted in GB: the batcher only adds
\* and compares sizes)
ScenarioTrees ==
  {[k \in 1..4 |-> [path |-> Join(path_to_files, RelPathOf(k)),
                     size |-> sz[k], data |-> k]] :
     sz \in {t \in [1..4 -> {1, 8}] : Cardinality({k \in 1..4 : t[k] = 1}) = 1}}

InitScenario == InitWith(ScenarioTrees, {20}, {<<>>}, {CpuCount})

SpecScenario == InitScenario /\ [][NextPack]_vars

\* ----------------------------------------------------- the unpack command
\* unzipper.py:25-43 and 68: the unpack command on the archives of a pack run
NextUnpack ==
  \/ UnzipCall
  \/ PreScan
  \/ UnzipSubmit
  \/ \E k \in DOMAIN fstate : UnzipStart(k)
  \/ \E k \in DOMAIN fstate : UnzipExtract(k)
  \/ \E k \in DOMAIN fstate : UnzipFail(k)
  \/ \E k \in DOMAIN fstate : UnzipFinish(k)
  \/ UnzipReturn

\* unzipper.py:68 and 25-28: the unpack command is run a second time with the
\* same arguments; `clean` records whether the first run extracted everything
UnzipAgain ==
  /\ pc = "u_exit"
  /\ run = 1
  /\ run' = run + 1
  /\ clean' = (/\ err = "none"
               /\ DOMAIN fstate = DOMAIN zip_files
               /\ \A k \in DOMAIN fstate : fstate[k] = "done")
  /\ out0' = outdir
  /\ total_files' = 0
  /\ badzip' = {}
  /\ i' = 1
  /\ pc' = "u_prescan"
  /\ err' = "none"
  /\ max_workers' = 0
  /\ fstate' = NoUnits
  /\ wpos' = NoUnits
  /\ started' = FALSE
  /\ UNCHANGED <<diskvars, scanvars, batchvars, wlocal, pbar_n, collected,
                 zip_files_created, zip_files, delete_zip, cpus>>

\* an output directory that already holds a file another program wrote at the
\* place where the first input file will be extracted
Foreign == (Join(output_dir, RelPathOf(1)) :> 0)

InitRerun == InitWith(TreesOf(SmallFiles), 0..MaxLimit, {<<>>, Foreign}, {CpuCount})

NextRerun == NextPack \/ NextUnpack \/ UnzipAgain

SpecRerun == InitRerun /\ [][NextRerun]_vars

\* unzipper.py:64-68, 25-28: the unpack command alone, called on a directory
\* of ManyArchives archives without entries, on a host of CpuCount or of
\* 16 processors
InitMany ==
  /\ fs = <<>>
  /\ limit = 0
  /\ zips = [z \in {ZipName(k) : k \in 1..ManyArchives} |-> <<>>]
  /\ outdir = <<>>
  /\ cpus \in {CpuCount, 16}
  /\ out0 = <<>>
  /\ run = 1
  /\ clean = FALSE
  /\ pc = "u_prescan"
  /\ err = "none"
  /\ i = 1
  /\ files_to_zip = <<>>
  /\ total_size = 0
  /\ warned = {}
  /\ batches = <<>>
  /\ current_batch = <<>>
  /\ current_batch_size = 0
  /\ max_workers = 0
  /\ fstate = NoUnits
  /\ wpos = NoUnits
  /\ wlocal = NoUnits
  /\ pbar_n = 0
  /\ collected = {}
  /\ zip_files_created = <<>>
  /\ started = FALSE
  /\ zip_files = [k \in 1..ManyArchives |-> ZipName(k)]
  /\ delete_zip = FALSE
  /\ total_files = 0
  /\ badzip = {}

\* unzipper.py:29-43 for archives without entries, every extraction succeeding
NextMany ==
  \/ PreScan
  \/ UnzipSubmit
  \/ \E k \in DOMAIN fstate : UnzipStart(k)
  \/ \E k \in DOMAIN fstate : UnzipFinish(k)
  \/ UnzipReturn

SpecMany == InitMany /\ [][NextMany]_vars

\* the pack command under a scheduler that lets every runnable thread run:
\* the main thread and the pool threads are never blocked for ever
InitFair == InitWith(TreesOf(SmallFiles), 0..MaxLimit, {<<>>}, {CpuCount})

SpecFair == InitFair /\ [][NextPack]_vars /\ WF_vars(NextPack)

\* ----------------------------------------------------------------- claims
\* positions of the main thread at which the batching loop has finished
AfterBatching == pc \in {"pool", "collect", "drain", "returned"}

\* number of occurrences of e in s
Count(s, e) == Cardinality({k \in 1..Len(s) : s[k] = e})

IsPermutation(s, t) ==
  /\ Len(s) = Len(t)
  /\ \A e \in Range(s) \cup Range(t) : Count(s, e) = Count(t, e)

\* C1: once the batching loop has finished, the concatenation of all batches
\* is a permutation of files_to_zip: every scanned entry lies in exactly one
\* batch, none is lost and none is duplicated.
C1_Partition ==
  AfterBatching => IsPermutation(Flatten(batches), files_to_zip)

\* three entries were split over two batches, one of them holding two entries
C1_Witness ==
  /\ pc = "pool"
  /\ Len(files_to_zip) = 3
  /\ Len(batches) = 2
  /\ \E b \in DOMAIN batches : Len(batches[b]) = 2

\* C2: every closed batch and the running current_batch, at every step of the
\* batching loop and afterwards, has a sum of member sizes of at most limit.
C2_SizeBound ==
  /\ \A b \in DOMAIN batches : SumSizes(batches[b]) <= limit
  /\ SumSizes(current_batch) <= limit

\* inside the loop: a closed batch of two files fills the limit exactly and
\* the next file has opened a new batch
C2_Witness ==
  /\ pc = "batch"
  /\ current_batch # <<>>
  /\ \E b \in DOMAIN batches :
       /\ Len(batches[b]) = 2
       /\ SumSizes(batches[b]) = limit

\* the (filepath, filesize) pairs of the files among the first n of the walk
\* whose size is at most limit, in walk order
RECURSIVE KeptUpTo(_)
KeptUpTo(n) ==
  IF n = 0 THEN <<>>
  ELSE IF fs[n].size <= limit
       THEN Append(KeptUpTo(n - 1), <<fs[n].path, fs[n].size>>)
       ELSE KeptUpTo(n - 1)

\* paths of the files larger than limit among the first n of the walk
LargeUpTo(n) == {fs[k].path : k \in {m \in 1..n : fs[m].size > limit}}

\* arcnames of the files larger than limit
LargeArcNames == {RelPathOf(k) : k \in {m \in 1..Len(fs) : fs[m].size > limit}}

\* C3: during the scan files_to_zip holds exactly the files seen so far with
\* size <= limit (a file of size limit is kept) and total_size is their sum;
\* a file with size > limit only produces a warning and the walk goes on to
\* the end; afterwards files_to_zip is the set of all files with size <= limit
\* and no batch and no archive ever holds a file larger than limit.
C3_Exclusion ==
  /\ pc = "scan" =>
       /\ i <= Len(fs) + 1
       /\ files_to_zip = KeptUpTo(i - 1)
       /\ total_size = SumSizes(KeptUpTo(i - 1))
       /\ warned = LargeUpTo(i - 1)
  /\ (pc = "batch" \/ AfterBatching) =>
       /\ IsPermutation(files_to_zip, KeptUpTo(Len(fs)))
       /\ total_size = SumSizes(KeptUpTo(Len(fs)))
       /\ warned = LargeUpTo(Len(fs))
       /\ \A e \in Range(Flatten(batches)) \cup Range(current_batch) : e[2] <= limit
  /\ \A z \in DOMAIN zips : \A m \in DOMAIN zips[z] : zips[z][m][1] \notin LargeArcNames

\* the first file of the walk was too large, the second has exactly the size
\* limit and has been written to an archive
C3_Witness ==
  /\ pc = "collect"
  /\ Len(fs) >= 2
  /\ fs[1].size > limit
  /\ fs[2].size = limit
  /\ \E z \in DOMAIN zips : \E m \in DOMAIN zips[z] : zips[z][m][1] = RelPathOf(2)

\* C4: when the scan yields no entries, save_in_zip builds no batch, writes no
\* archive, and does not raise: it never ends with the error of a worker pool
\* that could not be created.
C4_EmptyInputNoError ==
  (pc = "exit" /\ err # "ValueError_path" /\ files_to_zip = <<>>) =>
     /\ err # "ValueError_max_workers"
     /\ batches = <<>>
     /\ zip_files_created = <<>>
     /\ DOMAIN zips = {}

\* archives of zip_files that met no failure of their own: neither unreadable
\* in the pre-scan nor failed in their worker
Unharmed ==
  {k \in 1..Len(zip_files) :
     /\ zip_files[k] \notin badzip
     /\ ~(k \in DOMAIN fstate /\ fstate[k] = "failed")}

\* C5: when unzip_files has ended, every archive that met no failure of its own
\* has been extracted completely, whatever happened to the other archives; and
\* when save_in_zip ends with a worker's failure, every submitted batch has
\* been run to its end or to its own failure.
C5_FailureIsolation ==
  /\ pc = "u_exit" =>
       \A k \in Unharmed : k \in DOMAIN fstate /\ fstate[k] = "done"
  /\ (pc = "exit" /\ err = "IOError") =>
       \A k \in DOMAIN batches : k \in DOMAIN fstate /\ Finished(k)

\* C6: when save_in_zip or unzip_files has ended and the worker of at least
\* one unit failed, the operation ended with an error, and every submitted
\* unit had finished or failed by then.
C6_FailureSurfaced ==
  (/\ pc \in {"returned", "exit", "u_exit"}
   /\ \E k \in DOMAIN fstate : fstate[k] = "failed") =>
     /\ err # "none"
     /\ \A k \in DOMAIN fstate : Finished(k)

\* the output tree that holds exactly the files of the set S of walk positions
TreeOf(S) ==
  LET dest(n) == Join(output_dir, RelPathOf(n))
  IN [p \in {dest(n) : n \in S} |-> fs[CHOOSE n \in S : dest(n) = p].data]

\* unzip_files has returned and every archive was extracted without failure
UnzipSucceeded ==
  /\ pc = "u_exit"
  /\ err = "none"
  /\ \A k \in DOMAIN fstate : fstate[k] = "done"

\* C7 as stated: after packing and unpacking without failure, the output tree
\* has the relative paths and contents of every input file, whatever its size.
C7_RoundTripAllSizes ==
  UnzipSucceeded => outdir = TreeOf(1..Len(fs))

\* C7 amended: after save_in_zip returned and unzip_files extracted every
\* returned archive without failure, the output tree has exactly the relative
\* paths and contents of the input files whose size is at most limit.
C7_RoundTrip ==
  UnzipSucceeded => outdir = TreeOf({n \in 1..Len(fs) : fs[n].size <= limit})

\* a round trip over two archives in which one file was too large and a file
\* of a subdirectory was restored
C7_Witness ==
  /\ UnzipSucceeded
  /\ Len(zip_files) = 2
  /\ \E n \in 1..Len(fs) : fs[n].size > limit
  /\ Join(output_dir, RelPathOf(2)) \in DOMAIN outdir

\* the members batch k must have in its archive once n of its files are written
MembersOf(k, n) ==
  [j \in 1..n |->
     LET f == CHOOSE g \in 1..Len(fs) : fs[g].path = batches[k][j][1]
     IN <<RelPathOf(f), fs[f].data>>]

\* C8: in every interleaving, the worker of the k-th closed batch, and no
\* other, writes files_k.zip: the archive directory holds exactly the archives
\* files_k.zip of the batches k whose worker has started, files_k.zip holds
\* the files of batch k written so far under their paths relative to the scan
\* root, and all of them once the worker is done; the result of unit k is the
\* name files_k.zip.
C8_IndexAssignment ==
  (pc \in {"collect", "drain", "returned"}) =>
     /\ DOMAIN fstate = DOMAIN batches
     /\ DOMAIN zips = {ZipName(k) : k \in {j \in DOMAIN fstate : fstate[j] # "queued"}}
     /\ \A k \in DOMAIN fstate :
          fstate[k] # "queued" =>
            /\ zips[ZipName(k)] = MembersOf(k, Len(zips[ZipName(k)]))
            /\ Len(zips[ZipName(k)]) = wpos[k] + (IF wlocal[k] = -1 THEN 0 ELSE 1)
            /\ fstate[k] = "done" => Len(zips[ZipName(k)]) = Len(batches[k])
     /\ Range(zip_files_created) = {ZipName(k) : k \in {j \in collected : fstate[j] = "done"}}
     /\ Len(zip_files_created) = Cardinality(Range(zip_files_created))

\* three batches were written and the last one completed first
C8_Witness ==
  /\ pc = "returned"
  /\ Len(batches) = 3
  /\ zip_files_created[1] = ZipName(3)
  /\ \E k \in DOMAIN batches : Len(batches[k]) = 1

\* an archive of zip_files is gone only if delete_zip is set and its own
\* extraction is done
RemovedOnlyWhenDone ==
  \A k \in 1..Len(zip_files) :
    zip_files[k] \notin DOMAIN zips =>
      /\ delete_zip
      /\ k \in DOMAIN fstate
      /\ fstate[k] = "done"

\* a step removes an archive only as the last step of the successful
\* extraction of that archive, with delete_zip set
RemovalStep ==
  \A z \in DOMAIN zips :
    z \notin DOMAIN zips' =>
      /\ delete_zip
      /\ \E k \in DOMAIN fstate :
           /\ zip_files[k] = z
           /\ fstate[k] = "running"
           /\ wpos[k] = Len(zips[z])
           /\ fstate'[k] = "done"

\* C9: an archive is removed only with delete_zip set and only by the step
\* that completes its own extraction without error; an archive whose
\* extraction failed or is not finished, and every archive when delete_zip is
\* false, is still on disk.
C9_DeleteOnSuccess == [][RemovalStep]_vars /\ []RemovedOnlyWhenDone

\* with delete_zip, one archive was extracted and removed while another one
\* failed and is still there
C9_Witness ==
  /\ pc = "u_exit"
  /\ delete_zip
  /\ \E k \in DOMAIN fstate : fstate[k] = "done" /\ zip_files[k] \notin DOMAIN zips
  /\ \E k \in DOMAIN fstate : fstate[k] = "failed" /\ zip_files[k] \in DOMAIN zips

\* the configuration errors of the pack command
ConfigErrors == {"ValueError_path", "ValueError_repo_id", "ValueError_token"}

\* C10: when the pack command ends with a configuration error, no worker has
\* been started and no archive has been written.
C10_FailFast ==
  (pc = "exit" /\ err \in ConfigErrors) =>
     /\ ~started
     /\ DOMAIN zips = {}

\* ------------------------------------------------- claims on the batcher
\* position of the first entry of s with the largest size
FirstMax(s) ==
  CHOOSE k \in 1..Len(s) :
    /\ \A m \in 1..Len(s) : s[m][2] <= s[k][2]
    /\ \A m \in 1..(k - 1) : s[m][2] < s[k][2]

RECURSIVE StableDesc(_)
\* the specified order: by size descending, equal sizes in scan order
StableDesc(s) ==
  IF s = <<>> THEN <<>>
  ELSE LET k == FirstMax(s)
       IN <<s[k]>> \o StableDesc(SubSeq(s, 1, k - 1) \o SubSeq(s, k + 1, Len(s)))

RECURSIVE SpecifiedLoop(_, _, _, _, _)
\* the specified batching: the current batch is closed only when the sum would
\* exceed the limit and the batch is non-empty, otherwise the entry is
\* appended; the last non-empty batch is closed after the loop
SpecifiedLoop(s, lim, result, cur, size) ==
  IF s = <<>> THEN (IF cur # <<>> THEN Append(result, cur) ELSE result)
  ELSE LET e == Head(s)
       IN IF size + e[2] > lim /\ cur # <<>>
          THEN SpecifiedLoop(Tail(s), lim, Append(result, cur), <<e>>, e[2])
          ELSE SpecifiedLoop(Tail(s), lim, result, Append(cur, e), size + e[2])

\* C13: the batch sequence built by the code is, batch by batch and entry by
\* entry, the one the specified algorithm (stable sort by size descending,
\* close on overflow of a non-empty batch, close the last batch) yields on the
\* scanned entries.
C13_AlgorithmEquivalence ==
  AfterBatching =>
    batches = SpecifiedLoop(StableDesc(KeptUpTo(Len(fs))), limit, <<>>, <<>>, 0)

\* two files of equal size were batched, in at least two batches
C13_Witness ==
  /\ pc = "pool"
  /\ Len(batches) >= 2
  /\ \E a, b \in 1..Len(files_to_zip) :
       /\ a < b
       /\ files_to_zip[a][2] = files_to_zip[b][2]

\* the earliest batch of bs with room for an entry of size n, or 0
FirstRoom(bs, n, lim) ==
  LET room == {k \in 1..Len(bs) : SumSizes(bs[k]) + n <= lim}
  IN IF room = {} THEN 0 ELSE CHOOSE k \in room : \A m \in room : k <= m

RECURSIVE FirstFit(_, _, _)
\* first-fit: each entry goes to the earliest batch with room, else a new one
FirstFit(s, lim, bs) ==
  IF s = <<>> THEN bs
  ELSE LET e == Head(s)
           k == FirstRoom(bs, e[2], lim)
       IN IF k = 0 THEN FirstFit(Tail(s), lim, Append(bs, <<e>>))
          ELSE FirstFit(Tail(s), lim, [bs EXCEPT ![k] = Append(@, e)])

RECURSIVE NextFit(_, _, _)
\* next-fit: each entry goes to the batch opened last if it has room, else a
\* new one; earlier batches are never revisited
NextFit(s, lim, bs) ==
  IF s = <<>> THEN bs
  ELSE LET e == Head(s)
           n == Len(bs)
       IN IF n > 0 /\ SumSizes(bs[n]) + e[2] <= lim
          THEN NextFit(Tail(s), lim, [bs EXCEPT ![n] = Append(@, e)])
          ELSE NextFit(Tail(s), lim, Append(bs, <<e>>))

\* files_to_zip is ordered largest first
SortedDesc == \A k \in 1..(Len(files_to_zip) - 1) : files_to_zip[k][2] >= files_to_zip[k + 1][2]

\* C14 as stated: the batches are those of first-fit-decreasing bin packing.
C14_FirstFit ==
  AfterBatching => SortedDesc /\ batches = FirstFit(files_to_zip, limit, <<>>)

\* C14 amended: after sorting largest-first, each entry is placed into the
\* batch opened last if it still has room, and a new batch is started
\* otherwise; the batches are those of next-fit-decreasing bin packing.
C14_NextFit ==
  AfterBatching => SortedDesc /\ batches = NextFit(files_to_zip, limit, <<>>)

\* an entry opened a new batch although an earlier batch had room for it
C14_Witness ==
  /\ pc = "pool"
  /\ batches # FirstFit(files_to_zip, limit, <<>>)

\* C20: no batch is empty, and for every two consecutive batches (the running
\* current_batch counting as the one after the last closed batch) the total
\* of the earlier one plus the size of the first entry of the later one is
\* strictly greater than limit.
C20_NextFitClosure ==
  /\ \A k \in DOMAIN batches : batches[k] # <<>>
  /\ \A k \in 1..(Len(batches) - 1) :
       SumSizes(batches[k]) + batches[k + 1][1][2] > limit
  /\ (pc = "batch" /\ batches # <<>> /\ current_batch # <<>>) =>
       SumSizes(batches[Len(batches)]) + current_batch[1][2] > limit

\* three batches were closed, one of them with two entries
C20_Witness ==
  /\ pc = "pool"
  /\ Len(batches) = 3
  /\ \E k \in DOMAIN batches : Len(batches[k]) = 2

\* the file sizes of a batch sequence
SizesOf(bs) == [k \in DOMAIN bs |-> [j \in DOMAIN bs[k] |-> bs[k][j][2]]]

\* C12: for scanned sizes 8, 8, 8, 1 and limit 20 the batching loop yields
\* exactly two batches, of sizes [8, 8] and [8, 1], and a pack run that
\* completes leaves exactly the archives files_1.zip and files_2.zip.
C12_Scenario ==
  /\ AfterBatching => SizesOf(batches) = <<<<8, 8>>, <<8, 1>>>>
  /\ pc = "returned" => DOMAIN zips = {ZipName(1), ZipName(2)}

\* the scenario in the walk order 8, 8, 8, 1, packed to the end
C12_Witness ==
  /\ pc = "returned"
  /\ [k \in DOMAIN fs |-> fs[k].size] = <<8, 8, 8, 1>>
  /\ limit = 20
  /\ Len(zips[ZipName(1)]) = 2
  /\ Len(zips[ZipName(2)]) = 2

\* C16: for every interleaving of the pack workers the progress counter never
\* exceeds total_size, and once every worker has finished successfully and
\* save_in_zip has returned it equals total_size (no increment is lost).
C16_ProgressAccounting ==
  /\ pc \in {"collect", "drain", "returned"} => pbar_n <= total_size
  /\ pc = "returned" => pbar_n = total_size

\* C11: when unzip_files has extracted every archive and is run again with
\* the same archives and output directory (delete_zip false), the second run
\* raises no error and ends with the output directory, paths and contents,
\* exactly as the first run left it.
C11_Idempotence ==
  (run = 2 /\ clean /\ ~delete_zip) =>
     /\ badzip = {} => err = "none"
     /\ pc = "u_exit" => outdir = out0

\* a second run that extracted two archives over an earlier extraction
C11_Witness ==
  /\ run = 2
  /\ clean
  /\ ~delete_zip
  /\ pc = "u_exit"
  /\ Len(zip_files) = 2
  /\ \A k \in DOMAIN fstate : fstate[k] = "done"
  /\ DOMAIN outdir # {}

\* destination paths an unpack worker writes for archive k of zip_files
DestsOf(k) ==
  IF zip_files[k] \in DOMAIN zips
  THEN {Join(output_dir, m[1]) : m \in Range(zips[zip_files[k]])}
  ELSE {}

\* C17: two pack workers that run at the same time write different archive
\* paths, and two unpack workers that run at the same time on the archives of
\* one pack run write disjoint sets of destination paths.
C17_DisjointFiles ==
  \A j, k \in DOMAIN fstate :
     (j # k /\ fstate[j] = "running" /\ fstate[k] = "running") =>
        /\ pc \in {"collect", "drain"} =>
              ZipName(BatchIndex(j - 1)) # ZipName(BatchIndex(k - 1))
        /\ pc = "u_wait" => DestsOf(j) \cap DestsOf(k) = {}

\* two unpack workers in flight, each with entries to write
C17_Witness ==
  /\ pc = "u_wait"
  /\ Len(zip_files) = 2
  /\ \A k \in DOMAIN fstate : fstate[k] = "running" /\ DestsOf(k) # {}

\* two pack workers in flight
C17_WitnessPack ==
  /\ pc = "collect"
  /\ Len(batches) = 2
  /\ \A k \in DOMAIN fstate : fstate[k] = "running"

\* C19: an entry whose destination already exists in the output directory is
\* skipped: every file that was in the output directory when unzip_files was
\* called is still there with the contents it had.
C19_SkipExisting ==
  run >= 1 => \A p \in DOMAIN out0 : p \in DOMAIN outdir /\ outdir[p] = out0[p]

\* C15: at every moment of unzip_files over N archives at most min(16, N)
\* archives are being extracted, and at every moment of save_in_zip at most
\* min(16, number of batches) batches are being written.
C15_ConcurrencyBound ==
  /\ pc = "u_wait" => Running <= Min2(PoolCap, Len(zip_files))
  /\ pc \in {"collect", "drain"} => Running <= Min2(PoolCap, Len(batches))

\* save_in_zip is over: it returned its list or raised a worker's exception
PackOver == pc = "returned" \/ (pc = "exit" /\ err = "IOError")

====
